---- MODULE Spec2Model ----
(***************************************************************************)
(* The Job lifecycle engine of piston's executor                           *)
(* (src/api/src/executor/job.js): prime / execute / cleanup, the serial    *)
(* and parallel dispatch of the run invocations, and the verdict           *)
(* adjudication done by Job.evaluate.                                      *)
(*                                                                         *)
(* A JavaScript string is a sequence of one-character strings, so that     *)
(* trimming is computed and not assumed.  null is the one-element sequence *)
(* Null, whose element is no character of the alphabet.                    *)
(***************************************************************************)
EXTENDS Integers, Sequences, FiniteSets, TLC

\* Bounds of the exploration.
MaxCases == 2
MaxOrphans == 1
MaxCleanups == 2
OutputMaxSize == 2     \* config.output_max_size
MaxChunk == 2          \* largest chunk a "data" event delivers
MaxDescendants == 1    \* processes a child adds to its group
MaxRange == 3          \* largest size of the uid range and of the gid range
MaxAllocs == 6         \* successful constructions followed

Null == <<"null">>
Undefined == <<<<"undefined">>>>

Whitespace == {" ", "\n"}

\* The inputs and child behaviours explored.
Languages == {"java", "python"}
Stdouts == {<<"a">>, <<"a", "\n">>}
Stderrs == {<<>>, <<"e">>}
ExpectedStrings == {<<"a">>, <<"a", "\n">>, <<"b">>}
StdinPayloads == <<<<"1">>, <<"2">>, <<"3">>, <<"4">>>>
MainFile == <<"M", ".", "j", "a", "v", "a">>

\* (code, signal) pairs of the child's "exit" event: exactly one is non-null.
RunExits == {[code |-> "0", signal |-> "null"], [code |-> "null", signal |-> "SIGKILL"]}
CompileExits ==
  RunExits \cup {[code |-> "1", signal |-> "null"]}

\* What one child does: it exits ("exit" event) or cannot be started ("error" event).
RunOutcomes ==
  [kind : {"exit"}, stdout : Stdouts, stderr : Stderrs, exit : RunExits]
    \cup [kind : {"error"}, stdout : {<<>>}, stderr : {<<>>}, exit : {[code |-> "null", signal |-> "null"]}]
CompileOutcomes ==
  [kind : {"exit"}, stdout : {<<>>}, stderr : Stderrs, exit : CompileExits]
    \cup [kind : {"error"}, stdout : {<<>>}, stderr : {<<>>}, exit : {[code |-> "null", signal |-> "null"]}]

VARIABLES
  state,            \* this.state
  dir_exists,       \* whether the workspace this.dir exists on disk
  runtime,          \* this.runtime: [language, compiled]
  main,             \* this.main
  stdin,            \* this.stdin
  expected_output,  \* this.expected_output (Undefined when absent)
  pc,               \* where the pending execute() is suspended
  compile,          \* execute's local `compile`
  run,              \* the local `run` of run_in_band / run_in_parallel
  alive,            \* indices of the run children of the pending execute that are alive
  compile_alive,    \* whether the compile child is alive
  orphans,          \* run children still alive whose execute has already returned
  ret,              \* how the last call settled
  last_call,        \* the last method called
  cleanups,         \* consecutive cleanup calls so far
  spawned,          \* children spawned by the last call: [compile, run]
  produced,         \* produced[i]: what the invocation fed stdin[i] settled with
  out_of_order,     \* some run child of the last execute settled before a lower-indexed one
  \* One safe_call invocation, seen from inside.
  sc_phase,         \* the promise of safe_call: "none", "running", "resolved", "rejected"
  proc,             \* the child (group leader): "none", "running", "dead", "failed"
  proc_exit,        \* (code, signal) the leader ended with
  descendants,      \* live processes of the child's group other than the leader
  kill_timeout,     \* the timer: "none", "armed", "fired", "cleared"
  streams,          \* proc.stdout / proc.stderr: "none", "open", "destroyed"
  buf,              \* lengths of the `stdout` and `stderr` buffers
  pipe,             \* size of the chunk waiting in each pipe (0: none)
  written,          \* bytes the child's group has written to each stream
  killed_by,        \* whose proc.kill ended the leader: "none", "timer", "stdout", "stderr"
  late_kill,        \* a proc.kill was issued after safe_call had settled
  sc_result,        \* what safe_call settled with
  \* The identity pool and the constructor.
  config,           \* runner_uid_min / max, runner_gid_min / max
  uid,              \* the module-level counter `uid`
  gid,              \* the module-level counter `gid`
  allocs,           \* (uid, gid) of the jobs constructed so far, in order
  constructed       \* how the last `new Job(...)` ended: "none", "ok", "threw"

jobvars == <<state, dir_exists, runtime, main, stdin, expected_output, pc, compile,
             run, alive, compile_alive, orphans, ret, last_call, cleanups, spawned,
             produced, out_of_order>>

callvars == <<sc_phase, proc, proc_exit, descendants, kill_timeout, streams, buf, pipe,
              written, killed_by, late_kill, sc_result>>

poolvars == <<config, uid, gid, allocs, constructed>>

vars == <<jobvars, callvars, poolvars>>

inputs == <<runtime, stdin, expected_output>>

job_states == {"READY", "PRIMED", "EXECUTED"}

\* A promise that has not settled, and execute's `let compile;`.
Pending == [stdout |-> Null, stderr |-> Null, code |-> "pending", signal |-> "pending", stdin |-> Null]
NoCompile == [stdout |-> Null, stderr |-> Null, code |-> "undefined", signal |-> "undefined", stdin |-> Null]

NoValue == [threw |-> FALSE, compile |-> NoCompile, run |-> <<>>, verdict |-> [status |-> "none"]]
NotCalled == [settled |-> "none", error |-> "none", value |-> NoValue]
Resolved(v) == [settled |-> "resolved", error |-> "none", value |-> v]
Rejected(e) == [settled |-> "rejected", error |-> e, value |-> NoValue]

----------------------------------------------------------------------------
\* String helpers.

RECURSIVE TrimLeft(_)
TrimLeft(s) ==
  IF s # <<>> /\ Head(s) \in Whitespace THEN TrimLeft(Tail(s)) ELSE s

RECURSIVE TrimRight(_)
TrimRight(s) ==
  IF s # <<>> /\ s[Len(s)] \in Whitespace THEN TrimRight(SubSeq(s, 1, Len(s) - 1)) ELSE s

\* str.replace(/^\s+|\s+$/g, "")
Trim(s) == TrimRight(TrimLeft(s))

\* this.main.slice(0, -5)
SliceMain(m) == IF Len(m) > 5 THEN SubSeq(m, 1, Len(m) - 5) ELSE <<>>

\* resolve({ stdout, stderr, code, signal, stdin })
SafeCallResult(o, in) ==
  [stdout |-> o.stdout, stderr |-> o.stderr, code |-> o.exit.code,
   signal |-> o.exit.signal, stdin |-> in]

----------------------------------------------------------------------------
\* Job.evaluate (the adjudicator), as a function of (run, compile,
\* expected_output, stdin).  It returns the object it builds, together with
\* the run array as its in-place trimming leaves it; threw is TRUE when the
\* JavaScript raises a TypeError instead of returning.

Verdict(status, out, in, e) ==
  [status |-> status, stdout |-> out, stdin |-> in, expected_output |-> e]

EvalReturn(c, r, v) == [threw |-> FALSE, compile |-> c, run |-> r, verdict |-> v]
EvalThrow(c, r) == [threw |-> TRUE, compile |-> c, run |-> r, verdict |-> [status |-> "none"]]

\* The wrong-answer block entered whether or not expected output was given.
ExpectedProvidedAlways(eo) == TRUE

\* `if (this.expected_output)` of the wrong-answer block
ExpectedProvided(eo) == eo # Undefined

\* `run[i].stdout !== this.expected_output[i]`, run[i].stdout already trimmed
OutputDiffers(out, eo, i) == out # eo[i]

\* The loop's pick of a failing branch for case i whose stderr is `err` and
\* whose signal is `sig`: "RUNTIME", "TLE" or "compare".
CaseBranch(err, sig) ==
  IF err # <<>> THEN "RUNTIME"
  ELSE IF sig = "SIGKILL" THEN "TLE"
  ELSE "compare"

RECURSIVE EvaluateFrom(_, _, _, _, _)
EvaluateFrom(i, r, c, eo, sin) ==
  IF i > Len(r)
  THEN EvalReturn(c, r,
         Verdict("AC",
                 IF Len(r) > 0 THEN r[1].stdout ELSE Null,
                 IF Len(sin) > 0 THEN sin[1] ELSE Null,
                 Null))
  ELSE
    LET e == IF eo # Undefined /\ i <= Len(eo) THEN eo[i] ELSE Null
        branch == CaseBranch(r[i].stderr, r[i].signal)
    IN  IF branch = "RUNTIME"
        THEN EvalReturn(c, r, Verdict("RUNTIME", r[i].stderr, sin[i], e))
        ELSE IF branch = "TLE"
        THEN EvalReturn(c, r, Verdict("TLE", r[i].stdout, sin[i], e))
        ELSE IF ExpectedProvided(eo)
        THEN LET out == Trim(r[i].stdout)
                 r1 == [r EXCEPT ![i].stdout = out]
             IN  IF e = Null
                 THEN EvalThrow(c, r1)
                 ELSE IF OutputDiffers(out, eo, i)
                      THEN EvalReturn(c, r1, Verdict("WA", out, sin[i], Trim(e)))
                      ELSE EvaluateFrom(i + 1, r1, c, eo, sin)
        ELSE EvaluateFrom(i + 1, r, c, eo, sin)

Evaluate(r, c, eo, sin) == EvaluateFrom(1, r, c, eo, sin)

\* this.evaluate(run, compile)
evaluate(r, c) == Evaluate(r, c, expected_output, stdin)

\* The short-circuit object of a failed compile.
CompilationVerdict(c) ==
  [status |-> "COMPILATION",
   output |-> IF c.stderr # <<>> THEN c.stderr ELSE <<"S", "o", "m", "e", "t", "h", "i", "n", "g">>,
   stdin |-> Null, expectedOutput |-> Null]

\* A compile judged by its exit status instead of its stderr.
CompileFailedByExitCode(c) == c.code # "0"

\* `compile.stderr || compile.signal === "SIGKILL"`
CompileFailed(c) == c.stderr # <<>> \/ c.signal = "SIGKILL"

\* A dispatch that also looks at the compiled flag.
RunInBandOnlyCompiled(rt) == rt.language = "java" /\ rt.compiled

\* `this.runtime.language === "java"`: the runs go through run_in_band
RunInBand(rt) == rt.language = "java"

\* Results collected in the order of completion: the first free slot is taken.
PromiseAllResolveInCompletionOrder(r, i, res) ==
  LET free == CHOOSE k \in 1..Len(r) : r[k] = Pending /\ \A j \in 1..(k - 1) : r[j] # Pending
  IN  [r EXCEPT ![free] = res]

\* Promise.all: the promise created at loop index i settles into slot i
PromiseAllResolve(r, i, res) == [r EXCEPT ![i] = res]

----------------------------------------------------------------------------
\* The job after construction, for every runtime and every input explored.

NoSpawn == [compile |-> 0, run |-> 0]
PendingRet == [settled |-> "pending", error |-> "none", value |-> NoValue]

StdinLists == {[i \in 1..n |-> StdinPayloads[i]] : n \in 0..MaxCases}

\* The two output streams of a child, and the most a child writes to one.
Streams == {"stdout", "stderr"}
MaxWritten == OutputMaxSize + 2 * MaxChunk

NoExit == [code |-> "null", signal |-> "null"]
NoResult == [stdout |-> 0, stderr |-> 0, code |-> "none", signal |-> "none", reaped |-> 0]
Empty == [s \in Streams |-> 0]

\* No safe_call is looked into.
NoCall ==
  /\ sc_phase = "none"
  /\ proc = "none"
  /\ proc_exit = NoExit
  /\ descendants = 0
  /\ kill_timeout = "none"
  /\ streams = "none"
  /\ buf = Empty
  /\ pipe = Empty
  /\ written = Empty
  /\ killed_by = "none"
  /\ late_kill = FALSE
  /\ sc_result = NoResult

\* The configurations of the identity pool explored: both ranges are not empty.
Configs ==
  {[runner_uid_min |-> 1, runner_uid_max |-> a,
    runner_gid_min |-> 5, runner_gid_max |-> 4 + b] : a \in 1..MaxRange, b \in 1..MaxRange}

\* `let uid = 0; let gid = 0;` and no constructor call yet.
NoJob ==
  /\ uid = 0
  /\ gid = 0
  /\ allocs = <<>>
  /\ constructed = "none"

Init ==
  /\ state = "READY"
  /\ dir_exists = FALSE
  /\ runtime \in [language : Languages, compiled : BOOLEAN]
  /\ main = MainFile
  /\ stdin \in StdinLists
  /\ expected_output \in {Undefined} \cup [1..Len(stdin) -> ExpectedStrings]
  /\ pc = "idle"
  /\ compile = NoCompile
  /\ run = <<>>
  /\ alive = {}
  /\ compile_alive = FALSE
  /\ orphans = 0
  /\ ret = NotCalled
  /\ last_call = "none"
  /\ cleanups = 0
  /\ spawned = NoSpawn
  /\ produced = <<>>
  /\ out_of_order = FALSE
  /\ NoCall
  /\ config \in {c \in Configs : c.runner_uid_max = 1 /\ c.runner_gid_max = 5}
  /\ NoJob

----------------------------------------------------------------------------
\* prime(): fs.mkdir (not recursive) rejects with EEXIST on an existing
\* directory; otherwise the workspace is written and the job is PRIMED.
prime ==
  /\ pc = "idle"
  /\ last_call' = "prime"
  /\ cleanups' = 0
  /\ spawned' = NoSpawn
  /\ produced' = <<>>
  /\ out_of_order' = FALSE
  /\ IF dir_exists
     THEN /\ ret' = Rejected("Filesystem")
          /\ UNCHANGED <<state, dir_exists>>
     ELSE /\ ret' = Resolved(NoValue)
          /\ dir_exists' = TRUE
          /\ state' = "PRIMED"
  /\ UNCHANGED <<inputs, main, pc, compile, run, alive, compile_alive, orphans>>

\* The tail of execute() without `this.state = job_states.EXECUTED`.
ReturnWithoutTransition(r, c) ==
  /\ UNCHANGED state
  /\ LET v == evaluate(r, c)
     IN  ret' = IF v.threw THEN Rejected("TypeError") ELSE Resolved(v)
  /\ pc' = "idle"
  /\ run' = <<>>
  /\ compile' = NoCompile
  /\ alive' = {}

\* The tail of execute(): this.state = EXECUTED; return this.evaluate(run, compile)
Return(r, c) ==
  /\ state' = "EXECUTED"
  /\ LET v == evaluate(r, c)
     IN  ret' = IF v.threw THEN Rejected("TypeError") ELSE Resolved(v)
  /\ pc' = "idle"
  /\ run' = <<>>
  /\ compile' = NoCompile
  /\ alive' = {}

\* execute() from the end of the compile phase (lines 205-214): the java quirk
\* on main, the choice of dispatch, and the spawns made before the first await.
Dispatch(c, nc) ==
  /\ compile_alive' = FALSE
  /\ main' = IF RunInBand(runtime) /\ runtime.compiled THEN SliceMain(main) ELSE main
  /\ UNCHANGED orphans
  /\ IF Len(stdin) = 0
     THEN /\ Return(<<>>, c)
          /\ spawned' = [compile |-> nc, run |-> 0]
          /\ produced' = <<>>
     ELSE /\ ret' = PendingRet
          /\ compile' = c
          /\ produced' = [i \in 1..Len(stdin) |-> Pending]
          /\ UNCHANGED state
          /\ IF RunInBand(runtime)
             THEN /\ pc' = "run_in_band"
                  /\ run' = <<>>
                  /\ alive' = {1}
                  /\ spawned' = [compile |-> nc, run |-> 1]
             ELSE /\ pc' = "run_in_parallel"
                  /\ run' = [i \in 1..Len(stdin) |-> Pending]
                  /\ alive' = 1..Len(stdin)
                  /\ spawned' = [compile |-> nc, run |-> Len(stdin)]

\* An execute() that starts the compile child and, without awaiting it, the
\* first run child.
execute_without_await ==
  /\ pc = "idle"
  /\ state = "PRIMED"
  /\ runtime.compiled
  /\ RunInBand(runtime)
  /\ Len(stdin) > 0
  /\ pc' = "run_in_band"
  /\ compile_alive' = TRUE
  /\ alive' = {1}
  /\ run' = <<>>
  /\ compile' = NoCompile
  /\ spawned' = [compile |-> 1, run |-> 1]
  /\ ret' = PendingRet
  /\ produced' = [i \in 1..Len(stdin) |-> Pending]
  /\ last_call' = "execute"
  /\ cleanups' = 0
  /\ out_of_order' = FALSE
  /\ UNCHANGED <<state, main, orphans, inputs, dir_exists>>

NotPrimedOnlyReady(st) == st = "READY"

\* `this.state !== job_states.PRIMED`
NotPrimed(st) == st # "PRIMED"

\* execute(), up to its first await.  A parallel dispatch is explored only while
\* the children it may leave behind keep the orphans within MaxOrphans.
execute ==
  /\ pc = "idle"
  /\ last_call' = "execute"
  /\ cleanups' = 0
  /\ out_of_order' = FALSE
  /\ IF NotPrimed(state)
     THEN /\ ret' = Rejected("InvalidState")
          /\ spawned' = NoSpawn
          /\ produced' = <<>>
          /\ UNCHANGED <<state, main, pc, compile, run, alive, compile_alive, orphans>>
     ELSE /\ RunInBand(runtime) \/ Len(stdin) = 0 \/ orphans + Len(stdin) - 1 <= MaxOrphans
          /\ IF runtime.compiled
             THEN /\ pc' = "compile"
                  /\ compile_alive' = TRUE
                  /\ spawned' = [compile |-> 1, run |-> 0]
                  /\ ret' = PendingRet
                  /\ produced' = <<>>
                  /\ UNCHANGED <<state, main, compile, run, alive, orphans>>
             ELSE Dispatch(NoCompile, 0)
  /\ UNCHANGED <<inputs, dir_exists>>

\* The compile child settles: execute() resumes after `await this.safe_call(compile)`.
compile_settles(o) ==
  /\ pc = "compile"
  /\ UNCHANGED <<inputs, dir_exists, last_call, cleanups, out_of_order>>
  /\ IF o.kind = "error"
     THEN /\ ret' = Rejected("Spawn")
          /\ pc' = "idle"
          /\ compile_alive' = FALSE
          /\ UNCHANGED <<state, main, compile, run, alive, orphans, spawned, produced>>
     ELSE LET c == SafeCallResult(o, <<>>)
          IN  IF CompileFailed(c)
              THEN /\ ret' = Resolved(EvalReturn(c, <<>>, CompilationVerdict(c)))
                   /\ pc' = "idle"
                   /\ compile_alive' = FALSE
                   /\ UNCHANGED <<state, main, compile, run, alive, orphans, spawned, produced>>
              ELSE Dispatch(c, 1)

\* run_in_band(): the awaited child i settles; the loop spawns child i + 1 or returns.
run_in_band(i, o) ==
  /\ pc = "run_in_band"
  /\ i \in alive
  /\ UNCHANGED <<inputs, dir_exists, last_call, cleanups, main, compile_alive, orphans,
                 out_of_order>>
  /\ IF o.kind = "error"
     THEN /\ ret' = Rejected("Spawn")
          /\ pc' = "idle"
          /\ run' = <<>>
          /\ compile' = NoCompile
          /\ alive' = {}
          /\ UNCHANGED <<state, spawned, produced>>
     ELSE LET res == SafeCallResult(o, stdin[i])
              run1 == Append(run, res)
          IN  /\ produced' = [produced EXCEPT ![i] = res]
              /\ IF i < Len(stdin)
                 THEN /\ run' = run1
                      /\ alive' = {i + 1}
                      /\ spawned' = [spawned EXCEPT !.run = @ + 1]
                      /\ UNCHANGED <<state, pc, compile, ret>>
                 ELSE /\ Return(run1, compile)
                      /\ UNCHANGED spawned

\* run_in_parallel(): child i settles; Promise.all rejects on the first
\* rejection and resolves once every promise has resolved.
run_in_parallel(i, o) ==
  /\ pc = "run_in_parallel"
  /\ i \in alive
  /\ UNCHANGED <<inputs, dir_exists, last_call, cleanups, main, compile_alive, spawned>>
  /\ out_of_order' = (out_of_order \/ \E j \in alive : j < i)
  /\ IF o.kind = "error"
     THEN /\ ret' = Rejected("Spawn")
          /\ pc' = "idle"
          /\ run' = <<>>
          /\ compile' = NoCompile
          /\ alive' = {}
          /\ orphans' = orphans + Cardinality(alive \ {i})
          /\ UNCHANGED <<state, produced>>
     ELSE LET res == SafeCallResult(o, stdin[i])
              run1 == PromiseAllResolve(run, i, res)
          IN  /\ produced' = [produced EXCEPT ![i] = res]
              /\ UNCHANGED orphans
              /\ IF alive = {i}
                 THEN Return(run1, compile)
                 ELSE /\ run' = run1
                      /\ alive' = alive \ {i}
                      /\ UNCHANGED <<state, pc, compile, ret>>

\* A run child left behind by a rejected Promise.all exits.
orphan_exits ==
  /\ orphans > 0
  /\ orphans' = orphans - 1
  /\ UNCHANGED <<state, dir_exists, inputs, main, pc, compile, run, alive,
                 compile_alive, ret, last_call, cleanups, spawned, produced,
                 out_of_order>>

\* cleanup() with fs.rm(this.dir, { recursive: true }): an absent path is an error.
cleanup_without_force ==
  /\ pc = "idle"
  /\ last_call' = "cleanup"
  /\ cleanups' = IF cleanups < MaxCleanups THEN cleanups + 1 ELSE cleanups
  /\ dir_exists' = FALSE
  /\ ret' = IF dir_exists THEN Resolved(NoValue) ELSE Rejected("Filesystem")
  /\ spawned' = NoSpawn
  /\ produced' = <<>>
  /\ out_of_order' = FALSE
  /\ UNCHANGED <<state, inputs, main, pc, compile, run, alive, compile_alive, orphans>>

\* cleanup(): fs.rm(this.dir, { recursive: true, force: true })
cleanup ==
  /\ pc = "idle"
  /\ last_call' = "cleanup"
  /\ cleanups' = IF cleanups < MaxCleanups THEN cleanups + 1 ELSE cleanups
  /\ dir_exists' = FALSE
  /\ ret' = Resolved(NoValue)
  /\ spawned' = NoSpawn
  /\ produced' = <<>>
  /\ out_of_order' = FALSE
  /\ UNCHANGED <<state, inputs, main, pc, compile, run, alive, compile_alive, orphans>>

Next ==
  \/ prime /\ UNCHANGED <<callvars, poolvars>>
  \/ execute /\ UNCHANGED <<callvars, poolvars>>
  \/ cleanup /\ UNCHANGED <<callvars, poolvars>>
  \/ \E o \in CompileOutcomes : compile_settles(o) /\ UNCHANGED <<callvars, poolvars>>
  \/ \E i \in 1..MaxCases, o \in RunOutcomes :
       run_in_band(i, o) /\ UNCHANGED <<callvars, poolvars>>
  \/ \E i \in 1..MaxCases, o \in RunOutcomes :
       run_in_parallel(i, o) /\ UNCHANGED <<callvars, poolvars>>
  \/ orphan_exits /\ UNCHANGED <<callvars, poolvars>>

Spec == Init /\ [][Next]_vars

----------------------------------------------------------------------------
\* One safe_call invocation followed from the inside: the child and its
\* process group, the timer, the two output handlers and the final cleanup.
\* The job is in the execute() of a job with one test case and is waiting for
\* this invocation.

\* A timer that asks the child to terminate instead of killing it.
TimeoutSignalTerm == "SIGTERM"

\* The signal of `set_timeout((_) => proc.kill("SIGKILL"), timeout)`
TimeoutSignal == "SIGKILL"

\* How a child ends when nobody kills it.
OwnExits ==
  {[code |-> "0", signal |-> "null"], [code |-> "1", signal |-> "null"],
   [code |-> "null", signal |-> "SIGSEGV"]}

Settled == sc_phase \in {"resolved", "rejected"}

\* The state right after the promise executor of safe_call has run: the child
\* is spawned (or could not be), stdin is written, the timer is armed and the
\* handlers are attached.
InitCall ==
  /\ state = "PRIMED"
  /\ dir_exists = TRUE
  /\ runtime = [language |-> "python", compiled |-> FALSE]
  /\ main = MainFile
  /\ stdin = <<StdinPayloads[1]>>
  /\ expected_output \in {Undefined, <<<<"a">>>>}
  /\ pc = "safe_call"
  /\ compile = NoCompile
  /\ run = <<>>
  /\ alive = {}
  /\ compile_alive = FALSE
  /\ orphans = 0
  /\ ret = PendingRet
  /\ last_call = "execute"
  /\ cleanups = 0
  /\ spawned = [compile |-> 0, run |-> 1]
  /\ produced = <<>>
  /\ out_of_order = FALSE
  /\ sc_phase = "running"
  /\ proc \in {"running", "failed"}
  /\ proc_exit = NoExit
  /\ descendants = 0
  /\ kill_timeout = "armed"
  /\ streams = "open"
  /\ buf = Empty
  /\ pipe = Empty
  /\ written = Empty
  /\ killed_by = "none"
  /\ late_kill = FALSE
  /\ sc_result = NoResult
  /\ config \in {c \in Configs : c.runner_uid_max = 1 /\ c.runner_gid_max = 5}
  /\ NoJob

\* A proc.kill that the child survives.
proc_kill_survived(by, sig) ==
  /\ UNCHANGED <<proc, proc_exit, killed_by>>
  /\ late_kill' = (late_kill \/ Settled)

\* proc.kill(sig) issued by `by`: it ends the leader if the leader still runs.
proc_kill(by, sig) ==
  /\ proc' = IF proc = "running" THEN "dead" ELSE proc
  /\ proc_exit' = IF proc = "running" THEN [code |-> "null", signal |-> sig] ELSE proc_exit
  /\ killed_by' = IF proc = "running" THEN by ELSE killed_by
  /\ late_kill' = (late_kill \/ Settled)

\* The timer callback.
kill_timeout_fires ==
  /\ kill_timeout = "armed"
  /\ kill_timeout' = "fired"
  /\ proc_kill("timer", TimeoutSignal)
  /\ UNCHANGED <<sc_phase, descendants, streams, buf, pipe, written, sc_result>>

\* Output handlers whose cap asks the child to terminate instead of killing it.
on_data_sigterm(s) ==
  /\ streams = "open"
  /\ pipe[s] > 0
  /\ pipe' = [pipe EXCEPT ![s] = 0]
  /\ IF buf[s] > OutputMaxSize
     THEN proc_kill(s, "SIGTERM") /\ UNCHANGED buf
     ELSE /\ buf' = [buf EXCEPT ![s] = @ + pipe[s]]
          /\ UNCHANGED <<proc, proc_exit, killed_by, late_kill>>
  /\ UNCHANGED <<sc_phase, descendants, kill_timeout, streams, written, sc_result>>

\* An output handler that appends before it tests the cap.
on_data_append_first(s) ==
  /\ streams = "open"
  /\ pipe[s] > 0
  /\ pipe' = [pipe EXCEPT ![s] = 0]
  /\ buf' = [buf EXCEPT ![s] = @ + pipe[s]]
  /\ IF buf'[s] > OutputMaxSize
     THEN proc_kill(s, "SIGKILL")
     ELSE UNCHANGED <<proc, proc_exit, killed_by, late_kill>>
  /\ UNCHANGED <<sc_phase, descendants, kill_timeout, streams, written, sc_result>>

\* proc.stdout.on("data") / proc.stderr.on("data"): the chunk waiting in the
\* pipe of stream s is handed to the handler.
on_data(s) ==
  /\ streams = "open"
  /\ pipe[s] > 0
  /\ pipe' = [pipe EXCEPT ![s] = 0]
  /\ IF buf[s] > OutputMaxSize
     THEN proc_kill(s, "SIGKILL") /\ UNCHANGED buf
     ELSE /\ buf' = [buf EXCEPT ![s] = @ + pipe[s]]
          /\ UNCHANGED <<proc, proc_exit, killed_by, late_kill>>
  /\ UNCHANGED <<sc_phase, descendants, kill_timeout, streams, written, sc_result>>

\* A process of the group writes n bytes to stream s.
child_writes(s, n) ==
  /\ streams = "open"
  /\ proc = "running" \/ descendants > 0
  /\ pipe[s] = 0
  /\ written[s] + n <= MaxWritten
  /\ pipe' = [pipe EXCEPT ![s] = n]
  /\ written' = [written EXCEPT ![s] = @ + n]
  /\ UNCHANGED <<sc_phase, proc, proc_exit, descendants, kill_timeout, streams, buf,
                 killed_by, late_kill, sc_result>>

\* The child starts a process, which stays in the group (detached: true made
\* the child the leader of a new group).
child_forks ==
  /\ proc = "running"
  /\ descendants < MaxDescendants
  /\ descendants' = descendants + 1
  /\ UNCHANGED <<sc_phase, proc, proc_exit, kill_timeout, streams, buf, pipe, written,
                 killed_by, late_kill, sc_result>>

descendant_exits ==
  /\ descendants > 0
  /\ descendants' = descendants - 1
  /\ UNCHANGED <<sc_phase, proc, proc_exit, kill_timeout, streams, buf, pipe, written,
                 killed_by, late_kill, sc_result>>

\* The child ends by itself.
child_exits(e) ==
  /\ proc = "running"
  /\ proc' = "dead"
  /\ proc_exit' = e
  /\ UNCHANGED <<sc_phase, descendants, kill_timeout, streams, buf, pipe, written,
                 killed_by, late_kill, sc_result>>

\* A cleanup that leaves the timer armed.
exit_cleanup_without_clear(has_pid) ==
  /\ UNCHANGED kill_timeout
  /\ streams' = "destroyed"
  /\ pipe' = Empty
  /\ descendants' = IF has_pid THEN 0 ELSE descendants

\* exit_cleanup: clear_timeout, destroy both streams, SIGKILL to the group
\* -proc.pid.  Without a pid (the spawn failed) process.kill throws and the
\* empty catch swallows it.
exit_cleanup(has_pid) ==
  /\ kill_timeout' = IF kill_timeout = "armed" THEN "cleared" ELSE kill_timeout
  /\ streams' = "destroyed"
  /\ pipe' = Empty
  /\ descendants' = IF has_pid THEN 0 ELSE descendants

\* proc.on("exit", (code, signal) => { exit_cleanup(); resolve(...) })
on_exit ==
  /\ sc_phase = "running"
  /\ proc = "dead"
  /\ exit_cleanup(TRUE)
  /\ sc_phase' = "resolved"
  /\ sc_result' = [stdout |-> buf.stdout, stderr |-> buf.stderr, code |-> proc_exit.code,
                   signal |-> proc_exit.signal, reaped |-> descendants]
  /\ UNCHANGED <<proc, proc_exit, buf, written, killed_by, late_kill>>

\* proc.on("error", (err) => { exit_cleanup(); reject(...) })
on_error ==
  /\ sc_phase = "running"
  /\ proc = "failed"
  /\ exit_cleanup(FALSE)
  /\ sc_phase' = "rejected"
  /\ sc_result' = [stdout |-> buf.stdout, stderr |-> buf.stderr, code |-> "none",
                   signal |-> "none", reaped |-> 0]
  /\ UNCHANGED <<proc, proc_exit, buf, written, killed_by, late_kill>>

NextCall ==
  \/ kill_timeout_fires /\ UNCHANGED <<jobvars, poolvars>>
  \/ \E s \in Streams : on_data(s) /\ UNCHANGED <<jobvars, poolvars>>
  \/ \E s \in Streams, n \in 1..MaxChunk : child_writes(s, n) /\ UNCHANGED <<jobvars, poolvars>>
  \/ child_forks /\ UNCHANGED <<jobvars, poolvars>>
  \/ descendant_exits /\ UNCHANGED <<jobvars, poolvars>>
  \/ \E e \in OwnExits : child_exits(e) /\ UNCHANGED <<jobvars, poolvars>>
  \/ on_exit /\ UNCHANGED <<jobvars, poolvars>>
  \/ on_error /\ UNCHANGED <<jobvars, poolvars>>

SpecCall == InitCall /\ [][NextCall]_vars

\* The job engine and the inside of one invocation side by side, with the
\* scheduling they rely on: an armed timer fires, an emitted "exit" or "error"
\* event is handled, and (as every invocation settles) the invocation execute
\* is waiting for settles.  No expected output is given to the jobs: it plays
\* no part in whether a call returns.
InitLive == (Init /\ expected_output = Undefined) \/ InitCall

NextLive == Next \/ NextCall

Fairness ==
  /\ WF_vars(kill_timeout_fires /\ UNCHANGED <<jobvars, poolvars>>)
  /\ WF_vars(on_exit /\ UNCHANGED <<jobvars, poolvars>>)
  /\ WF_vars(on_error /\ UNCHANGED <<jobvars, poolvars>>)
  /\ WF_vars(\E o \in CompileOutcomes : compile_settles(o) /\ UNCHANGED <<callvars, poolvars>>)
  /\ WF_vars(\E i \in 1..MaxCases, o \in RunOutcomes :
               run_in_band(i, o) /\ UNCHANGED <<callvars, poolvars>>)
  /\ WF_vars(\E i \in 1..MaxCases, o \in RunOutcomes :
               run_in_parallel(i, o) /\ UNCHANGED <<callvars, poolvars>>)

SpecLive == InitLive /\ [][NextLive]_vars /\ Fairness

\* The string of n bytes a buffer of length n stands for.
Fill(n) == [i \in 1..n |-> "a"]

\* The RunResult the invocation resolved with, and the verdict of the job
\* whose only run it is.
CallResult ==
  [stdout |-> Fill(sc_result.stdout), stderr |-> Fill(sc_result.stderr),
   code |-> sc_result.code, signal |-> sc_result.signal, stdin |-> stdin[1]]

CallVerdict == evaluate(<<CallResult>>, NoCompile).verdict

----------------------------------------------------------------------------
\* Shorthands of the properties below.

\* The last call was an execute() that has settled.
ExecuteSettled == last_call = "execute" /\ pc = "idle" /\ ret.settled # "pending"
\* ... and it returned an object (from the short-circuit or from evaluate).
ExecuteReturned == ExecuteSettled /\ ret.settled = "resolved"
\* ... and that object came from evaluate.
Adjudicated == ExecuteReturned /\ ret.value.verdict.status # "COMPILATION"

----------------------------------------------------------------------------
\* C1: execute() on a job that is not Primed (Ready or Executed) fails with
\* the invalid-state error, spawns no compile or run child, and leaves the
\* job state (and everything else of the job) unchanged.
C1_ExecuteRejectedUnlessPrimed ==
  [][(execute /\ state # "PRIMED") =>
       /\ ret'.settled = "rejected"
       /\ ret'.error = "InvalidState"
       /\ spawned' = NoSpawn
       /\ pc' = "idle"
       /\ UNCHANGED <<state, dir_exists, main, alive, compile_alive, orphans>>]_vars

\* An execute() has been rejected on an Executed job.
C1_Witness ==
  /\ last_call = "execute"
  /\ state = "EXECUTED"
  /\ ret.settled = "rejected"
  /\ ret.error = "InvalidState"
  /\ spawned = NoSpawn

\* C2 (as claimed): prime() on a job that is not Ready fails and leaves the
\* state unchanged, so the state only ever advances Ready -> Primed ->
\* Executed and never moves back to Primed.
C2_PrimeOnlyFromReady ==
  [][/\ (prime /\ state # "READY") => (ret'.settled = "rejected" /\ state' = state)
     /\ state' # state =>
          \/ state = "READY" /\ state' = "PRIMED"
          \/ state = "PRIMED" /\ state' = "EXECUTED"]_vars

----------------------------------------------------------------------------
\* The adjudication the specification describes, stated over what the
\* children produced: case i is accepting when it wrote nothing to stderr,
\* was not SIGKILLed and, when expected output is provided, its stdout and
\* the expected output are equal once both are trimmed.

TrimmedMismatch(r, eo, i) == eo # Undefined /\ Trim(r[i].stdout) # Trim(eo[i])

AcceptingCase(r, eo, i) ==
  /\ r[i].stderr = <<>>
  /\ r[i].signal # "SIGKILL"
  /\ ~TrimmedMismatch(r, eo, i)

ClaimedCaseStatus(r, eo, i) ==
  IF r[i].stderr # <<>> THEN "RUNTIME"
  ELSE IF r[i].signal = "SIGKILL" THEN "TLE"
  ELSE "WA"

ClaimedStatus(r, eo) ==
  IF \A i \in 1..Len(r) : AcceptingCase(r, eo, i)
  THEN "AC"
  ELSE LET first == CHOOSE i \in 1..Len(r) :
                      /\ ~AcceptingCase(r, eo, i)
                      /\ \A j \in 1..(i - 1) : AcceptingCase(r, eo, j)
       IN  ClaimedCaseStatus(r, eo, first)

\* The index of the case a non-AC verdict reports (the stdin payloads are distinct).
VerdictCase(v) == CHOOSE i \in 1..Len(stdin) : stdin[i] = v.stdin

\* C3 (as claimed): evaluate returns the verdict of the lowest non-accepting
\* case, RUNTIME before TLE before WA within it, and AC if and only if every
\* case is accepting.
C3_FirstFailingCaseDecides ==
  Adjudicated => ret.value.verdict.status = ClaimedStatus(produced, expected_output)

\* C4: under parallel dispatch, whatever the order in which the children
\* settle, run[i] is the result of the invocation fed stdin[i], and what
\* execute returns is what evaluate makes of the results taken in index order.
C4_ParallelOrderIrrelevant ==
  /\ pc = "run_in_parallel" =>
       \A i \in 1..Len(run) : run[i] # Pending => (run[i] = produced[i] /\ run[i].stdin = stdin[i])
  /\ (Adjudicated /\ ~RunInBand(runtime)) =>
       /\ Len(ret.value.run) = Len(stdin)
       /\ \A i \in 1..Len(stdin) : ret.value.run[i].stdin = stdin[i]
       /\ ret.value = evaluate(produced, ret.value.compile)

\* A parallel execute has returned a verdict after a child settled before a
\* lower-indexed one.
C4_Witness ==
  /\ Adjudicated
  /\ ~RunInBand(runtime)
  /\ out_of_order
  /\ Len(stdin) >= 2
  /\ ret.value.verdict.status = "RUNTIME"
  /\ ret.value.verdict.stdin = stdin[2]

\* C5: for language java, compiled or not, the runs never overlap:
\* invocation i + 1 is alive only once invocations 1..i have settled, at most
\* one run child of the job is alive; and the runs are serial exactly when the
\* language is java.
C5_JavaRunsAreSerial ==
  /\ runtime.language = "java" =>
       /\ Cardinality(alive) + orphans <= 1
       /\ pc # "run_in_parallel"
       /\ \A i \in alive : Len(run) = i - 1 /\ \A j \in 1..(i - 1) : produced[j] # Pending
  /\ pc = "run_in_band" => runtime.language = "java"
  /\ pc = "run_in_parallel" => runtime.language # "java"

\* The second run of an interpreted java job is alive, the first has settled.
C5_Witness ==
  /\ runtime.language = "java"
  /\ ~runtime.compiled
  /\ alive = {2}
  /\ Len(run) = 1
  /\ spawned.run = 2

\* C6: for a compiled runtime, execute returns COMPILATION exactly when the
\* compile result has non-empty stderr or signal SIGKILL (whatever its exit
\* code); then no run invocation was started and the run list is empty.
C6_CompilationIffCompileFailed ==
  ExecuteReturned =>
    LET v == ret.value
    IN  /\ runtime.compiled =>
             (v.verdict.status = "COMPILATION"
                <=> (v.compile.stderr # <<>> \/ v.compile.signal = "SIGKILL"))
        /\ v.verdict.status = "COMPILATION" =>
             /\ runtime.compiled
             /\ spawned = [compile |-> 1, run |-> 0]
             /\ v.run = <<>>
             /\ alive = {}

\* A compile that wrote to stderr and exited with code 0 gave COMPILATION.
C6_Witness ==
  /\ ExecuteReturned
  /\ ret.value.verdict.status = "COMPILATION"
  /\ ret.value.compile.stderr # <<>>
  /\ ret.value.compile.code = "0"
  /\ Len(stdin) > 0

\* C7 (as claimed): with expected output provided, a case with empty stderr
\* and no SIGKILL is reported WA if and only if its stdout and its expected
\* output differ after both are trimmed.
C7_WrongAnswerIffTrimmedDiffer ==
  (Adjudicated /\ expected_output # Undefined) =>
    LET v == ret.value.verdict
    IN  /\ v.status = "WA" => TrimmedMismatch(produced, expected_output, VerdictCase(v))
        /\ v.status = "AC" =>
             \A i \in 1..Len(stdin) : ~TrimmedMismatch(produced, expected_output, i)

\* C8: without expected output no run results give WA: execute returns
\* RUNTIME, TLE, AC or COMPILATION, and evaluate raises nothing.
C8_NoWrongAnswerWithoutExpected ==
  (ExecuteSettled /\ expected_output = Undefined) =>
    /\ ret.error # "TypeError"
    /\ ret.settled = "resolved" =>
         ret.value.verdict.status \in {"RUNTIME", "TLE", "AC", "COMPILATION"}

\* Without expected output, a second case that wrote to stderr gave RUNTIME
\* after a first case that was accepted on its stdout alone.
C8_Witness ==
  /\ Adjudicated
  /\ expected_output = Undefined
  /\ Len(stdin) >= 2
  /\ ret.value.verdict.status = "RUNTIME"
  /\ ret.value.verdict.stdin = stdin[2]
  /\ ret.value.verdict.expected_output = Null

\* An execute() of a Primed job, with stdin the empty list, has settled.
EmptyExecuteSettled ==
  ExecuteSettled /\ Len(stdin) = 0 /\ ret.error # "InvalidState"

\* C9 (as claimed): with stdin the empty list, execute starts no run, still
\* runs the compile step of a compiled runtime, moves the job to Executed and
\* returns AC with stdout = null and stdin = null.
C9_EmptyStdinGivesAC ==
  EmptyExecuteSettled =>
    /\ spawned = [compile |-> IF runtime.compiled THEN 1 ELSE 0, run |-> 0]
    /\ state = "EXECUTED"
    /\ ret.settled = "resolved"
    /\ ret.value.verdict = Verdict("AC", Null, Null, Null)

\* C9 (amended): with stdin the empty list, execute starts no run and still
\* runs the compile step of a compiled runtime; unless that compile step
\* fails (stderr, SIGKILL, or a child that cannot be spawned), the job moves
\* to Executed and execute returns AC with stdout = null and stdin = null.
C9_EmptyStdinGivesACUnlessCompileFails ==
  EmptyExecuteSettled =>
    /\ spawned = [compile |-> IF runtime.compiled THEN 1 ELSE 0, run |-> 0]
    /\ (ret.settled = "rejected" \/ ret.value.verdict.status = "COMPILATION") =>
         /\ runtime.compiled
         /\ ret.settled = "rejected" => ret.error = "Spawn"
         /\ ret.settled = "resolved" => CompileFailed(ret.value.compile)
    /\ (ret.settled = "resolved" /\ ret.value.verdict.status # "COMPILATION") =>
         /\ state = "EXECUTED"
         /\ ret.value.verdict = Verdict("AC", Null, Null, Null)
         /\ ret.value.run = <<>>
         /\ runtime.compiled => ~CompileFailed(ret.value.compile)

\* A compiled job with no stdin has compiled, run nothing and returned AC.
C9_Witness ==
  /\ EmptyExecuteSettled
  /\ runtime.compiled
  /\ spawned = [compile |-> 1, run |-> 0]
  /\ state = "EXECUTED"
  /\ ret.value.verdict.status = "AC"

\* C10: cleanup() can be called in every job state, resolves whether or not
\* the workspace exists, leaves the job state unchanged and the workspace
\* absent; a cleanup() that follows a cleanup() changes nothing observable.
C10_CleanupIdempotent ==
  /\ [](pc = "idle" => ENABLED cleanup)
  /\ [][cleanup =>
          /\ state' = state
          /\ ret'.settled = "resolved"
          /\ ~dir_exists'
          /\ last_call = "cleanup" => UNCHANGED <<state, dir_exists, ret, main, pc, alive>>]_vars

\* An Executed job has been cleaned up twice in a row.
C10_Witness ==
  /\ last_call = "cleanup"
  /\ cleanups = 2
  /\ state = "EXECUTED"
  /\ ~dir_exists
  /\ ret.settled = "resolved"

----------------------------------------------------------------------------
\* The constructor and the identity pool it draws from.  The counters uid and
\* gid belong to the module, not to a job: every `new Job(...)` of the process
\* shares them.

FileNames == {"a.py", "b.py"}

\* `uid++; uid %= max - min` : a modulus one short of the range size.
NextCounterShortRange(c, lo, hi) == IF hi = lo THEN 0 ELSE (c + 1) % (hi - lo)

\* `uid++; uid %= config.runner_uid_max - config.runner_uid_min + 1;`
NextCounter(c, lo, hi) == (c + 1) % (hi - lo + 1)

\* The ids the next shuffle_ids() assigns.
NextIds == [uid |-> config.runner_uid_min + uid, gid |-> config.runner_gid_min + gid]

shuffle_ids ==
  /\ allocs' = Append(allocs, NextIds)
  /\ uid' = NextCounter(uid, config.runner_uid_min, config.runner_uid_max)
  /\ gid' = NextCounter(gid, config.runner_gid_min, config.runner_gid_max)

InitPool ==
  /\ state = "READY"
  /\ dir_exists = FALSE
  /\ runtime = [language |-> "python", compiled |-> FALSE]
  /\ main = MainFile
  /\ stdin = <<>>
  /\ expected_output = Undefined
  /\ pc = "idle"
  /\ compile = NoCompile
  /\ run = <<>>
  /\ alive = {}
  /\ compile_alive = FALSE
  /\ orphans = 0
  /\ ret = NotCalled
  /\ last_call = "none"
  /\ cleanups = 0
  /\ spawned = NoSpawn
  /\ produced = <<>>
  /\ out_of_order = FALSE
  /\ NoCall
  /\ config \in Configs
  /\ NoJob

\* A constructor that takes its ids before it looks at the files.
constructor_ids_first(files, m) ==
  /\ Len(allocs) < MaxAllocs
  /\ shuffle_ids
  /\ constructed' = IF m \in files THEN "ok" ELSE "threw"
  /\ UNCHANGED config

\* new Job({ runtime, files, main, ... }): it throws when main is not the name
\* of one of the files, before shuffle_ids() is reached; nothing is written to
\* disk.
constructor(files, m) ==
  /\ Len(allocs) < MaxAllocs
  /\ IF m \in files
     THEN shuffle_ids /\ constructed' = "ok"
     ELSE constructed' = "threw" /\ UNCHANGED <<uid, gid, allocs>>
  /\ UNCHANGED config

NextPool ==
  \E files \in SUBSET FileNames, m \in FileNames :
    constructor(files, m) /\ UNCHANGED <<jobvars, callvars>>

SpecPool == InitPool /\ [][NextPool]_vars

\* C12: a construction whose main is not among the file names throws, and it
\* leaves the counters of the identity pool, the ids the next job gets, the
\* jobs created so far and the disk as they were.
C12_FailedConstructionHasNoEffect ==
  [][(\E files \in SUBSET FileNames : \E m \in FileNames \ files : constructor(files, m)) =>
       /\ constructed' = "threw"
       /\ UNCHANGED <<uid, gid, allocs, NextIds, dir_exists, state>>]_vars

\* A construction has failed after two jobs were created, and the third job
\* will get the ids that follow theirs.
C12_Witness ==
  /\ constructed = "threw"
  /\ Len(allocs) = 2
  /\ uid = 2 % (config.runner_uid_max - config.runner_uid_min + 1)
  /\ gid = 2 % (config.runner_gid_max - config.runner_gid_min + 1)

UidRange == config.runner_uid_max - config.runner_uid_min + 1
GidRange == config.runner_gid_max - config.runner_gid_min + 1

\* C15: the k-th allocation (from 0) returns uid_min + (k mod uid range size)
\* and gid_min + (k mod gid range size), both within their ranges; any
\* range-size consecutive allocations have pairwise distinct uids; and after
\* every range-size allocations the counter is back at 0.
C15_AllocationsCycleThroughRange ==
  /\ \A k \in 0..(Len(allocs) - 1) :
       /\ allocs[k + 1].uid = config.runner_uid_min + (k % UidRange)
       /\ allocs[k + 1].gid = config.runner_gid_min + (k % GidRange)
       /\ allocs[k + 1].uid \in config.runner_uid_min..config.runner_uid_max
       /\ allocs[k + 1].gid \in config.runner_gid_min..config.runner_gid_max
  /\ \A j, k \in 1..Len(allocs) :
       j < k /\ k - j < UidRange => allocs[j].uid # allocs[k].uid
  /\ uid = Len(allocs) % UidRange
  /\ gid = Len(allocs) % GidRange

\* Both ranges differ in size, the uid range has been gone through twice and
\* its counter is back at 0.
C15_Witness ==
  /\ UidRange = 2
  /\ GidRange = 3
  /\ Len(allocs) = 4
  /\ allocs[4] = [uid |-> config.runner_uid_min + 1, gid |-> config.runner_gid_min]
  /\ uid = 0

----------------------------------------------------------------------------
\* The invocation resolved after the timer had killed the running child.
TimerKilled == sc_phase = "resolved" /\ killed_by = "timer"

\* C11 (as stated): whenever the timer of a run invocation expires before the
\* child has exited, the kill fires, the RunResult carries signal SIGKILL and
\* the verdict of that test case is TLE.
C11_TimerKillGivesTLE ==
  TimerKilled =>
    /\ kill_timeout = "fired"
    /\ sc_result.signal = "SIGKILL"
    /\ CallVerdict.status = "TLE"

\* C11 (amended): whenever the timer of a run invocation expires before the
\* child has exited, the kill fires and the RunResult carries signal SIGKILL;
\* the verdict of that test case is TLE when the run wrote nothing to stderr
\* and RUNTIME when it did.
C11_TimerKillGivesTLEUnlessStderr ==
  TimerKilled =>
    /\ kill_timeout = "fired"
    /\ sc_result.signal = "SIGKILL"
    /\ CallVerdict.status = IF sc_result.stderr > 0 THEN "RUNTIME" ELSE "TLE"

\* A silent child was killed by the timer and its case is judged TLE.
C11_Witness ==
  /\ TimerKilled
  /\ sc_result.stderr = 0
  /\ sc_result.signal = "SIGKILL"
  /\ CallVerdict.status = "TLE"

----------------------------------------------------------------------------
\* The pending execute() is in its run phase.
Running == pc \in {"run_in_band", "run_in_parallel"}

\* C13: for a compiled runtime, within one execute the compile invocation has
\* settled before any run invocation is spawned, in the serial and in the
\* parallel dispatch: while the compile child is alive the execute has spawned
\* no run child and none of its run children is alive.
C13_CompileSettlesBeforeRuns ==
  /\ compile_alive => pc = "compile" /\ alive = {} /\ spawned.run = 0
  /\ (runtime.compiled /\ (Running \/ spawned.run > 0)) =>
       /\ ~compile_alive
       /\ spawned.compile = 1
       /\ Running => compile # NoCompile /\ ~CompileFailed(compile)

\* The run children of a compiled non-java job are alive, after its compile
\* child has settled.
C13_Witness ==
  /\ runtime.compiled
  /\ pc = "run_in_parallel"
  /\ alive = 1..MaxCases
  /\ compile # NoCompile
  /\ ~compile_alive
  /\ spawned = [compile |-> 1, run |-> MaxCases]

\* C14: for a non-java runtime, execute spawns all N run invocations before it
\* waits on any of them, and it does not return, with a result or with an
\* error, while one of them is still unsettled, a spawn error of one of them
\* included.
C14_ParallelWaitsForAll ==
  /\ pc = "run_in_parallel" => spawned.run = Len(stdin)
  /\ orphans = 0

\* C18: adjudication is a pure function: evaluating what evaluate was given
\* once more yields the same verdict, and evaluate leaves the job's
\* expected_output and stdin and the RunResults it was given as they were.
C18_EvaluateIsPure ==
  [][(Running /\ pc' = "idle" /\ ret'.settled = "resolved") =>
       /\ evaluate(produced', compile).verdict = ret'.value.verdict
       /\ Evaluate(ret'.value.run, compile, expected_output', stdin').verdict = ret'.value.verdict
       /\ UNCHANGED <<expected_output, stdin>>
       /\ ret'.value.run = produced']_vars

\* C20: every execute that returns a verdict leaves the job Executed, the
\* COMPILATION short-circuit included.
C20_ReturnLeavesExecuted == ExecuteReturned => state = "EXECUTED"

----------------------------------------------------------------------------
\* C16: on every exit path of safe_call (normal exit, spawn error, timeout
\* kill, output-cap kill), once the call has settled the timer is cancelled,
\* the streams are destroyed, no process of the child's group is alive, and
\* neither the timer nor an output handler has issued a kill after the
\* settling.
C16_TeardownOnEveryExitPath ==
  Settled =>
    /\ kill_timeout # "armed"
    /\ streams = "destroyed"
    /\ proc # "running"
    /\ descendants = 0
    /\ ~late_kill

\* The timer killed the leader, a descendant outlived it, and the settled
\* call has left nothing of the group alive.
C16_Witness ==
  /\ sc_phase = "resolved"
  /\ killed_by = "timer"
  /\ sc_result.reaped > 0
  /\ descendants = 0
  /\ kill_timeout = "fired"

\* C17: for each of stdout and stderr: a child that has written at most
\* output_max_size bytes to the stream is not killed by its cap; a child from
\* which more than output_max_size bytes were received on the stream has been
\* killed with SIGKILL; and the buffer never exceeds output_max_size plus one
\* chunk.
C17_OutputCapBoundary ==
  \A s \in Streams :
    /\ written[s] <= OutputMaxSize => killed_by # s
    /\ (sc_phase = "resolved" /\ sc_result[s] > OutputMaxSize) => sc_result.signal = "SIGKILL"
    /\ buf[s] <= OutputMaxSize + MaxChunk

\* C19: every safe_call invocation eventually settles, even when the child
\* never exits by itself; and so every execute on a Primed job eventually
\* returns, in the serial and in the parallel dispatch.
C19_EveryCallSettles ==
  /\ (sc_phase = "running") ~> Settled
  /\ (pc \in {"compile", "run_in_band", "run_in_parallel"}) ~> (pc = "idle" /\ ret.settled # "pending")

\* A child that never exited by itself was killed by the timer and its
\* invocation has settled.
C19_Witness ==
  /\ sc_phase = "resolved"
  /\ killed_by = "timer"
  /\ sc_result.signal = "SIGKILL"

----------------------------------------------------------------------------
\* The invocation resolved after the stdout handler had killed the running
\* child over the output cap, and the child's group wrote nothing to stderr.
StdoutCapKilled ==
  /\ sc_phase = "resolved"
  /\ killed_by = "stdout"
  /\ written["stderr"] = 0

\* C21: a run that was SIGKILLed because its stdout exceeded the output cap,
\* not by its timer, and that wrote nothing to stderr carries signal SIGKILL
\* and is adjudicated TLE, the verdict of a wall-clock timeout.
C21_OutputCapKillGivesTLE ==
  StdoutCapKilled =>
    /\ sc_result.stdout > OutputMaxSize
    /\ sc_result.stderr = 0
    /\ sc_result.signal = "SIGKILL"
    /\ CallVerdict.status = "TLE"

\* The cap on stdout killed a silent child whose timer never expired, and
\* its case is judged TLE.
C21_Witness ==
  /\ StdoutCapKilled
  /\ kill_timeout = "cleared"
  /\ sc_result.signal = "SIGKILL"
  /\ CallVerdict.status = "TLE"

====
